---- MODULE Spec2Model ----
(***************************************************************************)
(* Model of the image tagger in src/src/main.rs: the Predictor (lazy load  *)
(* of the label catalog and the inference session), mcut_threshold, and    *)
(* the thresholding, ordering and formatting done by Predictor::predict.   *)
(*                                                                         *)
(* Scores are f32 in the source.  Here a score is an even integer in units *)
(* of 0.05 (2 = 0.10, 4 = 0.20), so that the midpoint (a + b) / 2 of two   *)
(* scores is exact; thresholds may be odd (3 = 0.15).  Only ordered        *)
(* (non-NaN) scores are drawn.  A failing unwrap()/expect()/index is a     *)
(* panic, which ends the process: main.rs has one thread and catches       *)
(* nothing.                                                                *)
(***************************************************************************)
EXTENDS Integers, Sequences, FiniteSets, TLC

\* ---------------------------------------------------------------- bounds
\* Largest number of rows of selected_tags.csv.
MaxTags == 4

\* Score values a model may emit, thresholds a caller may pass, callers.
ScoreVals == {2, 4, 6}
ThVals == {2}
Callers == {1, 2}

None == "None"

\* ------------------------------------------------------------- constants
\* `.max(0.15)` of the character MCut threshold, in units of 0.05.
CharFloor == 3

\* category codes of TagRow.category matched by load_labels; 1 stands for
\* every other code (`_ => {}`).
Categories == {9, 0, 4, 1}

\* The characters kept as they are by the name normalisation.
KeepChars ==
  {"_", "(", ")", "<", ">", "+", "^", ".",
   "0", "1", "2", "3", "4", "5", "6", "7", "8", "9"}

\* ------------------------------------------------------------ the CSV
Digit(i) == <<"0", "1", "2", "3", "4", "5", "6", "7", "8", "9">>[i + 1]
Letter(i) == <<"a", "b", "c", "d", "e", "f", "g", "h", "i", "j">>[i + 1]

\* The raw name of row idx (0-based): names are character sequences; an
\* even row has an ordinary name ("_a"), an odd row an emoticon-style name
\* made of kept characters only ("_1").
RawName(idx) ==
  IF idx % 2 = 0 THEN <<"_", Letter(idx)>> ELSE <<"_", Digit(idx)>>

\* The files selected_tags.csv may hold: up to MaxTags rows (name, category).
CsvFiles ==
  UNION { { [k \in 1..n |-> [name |-> RawName(k - 1), category |-> cats[k]]]
            : cats \in [1..n -> Categories] } : n \in 0..MaxTags }

\* ------------------------------------------------------------ failures
\* The places of Predictor::load, load_labels and predict whose unwrap() or
\* expect() panics when the outside world (network, files, runtime) fails.
RetrieveFailures == {"Api::new", "repo.get(model.onnx)"}
LabelFailures == {"repo.get(selected_tags.csv)", "from_path", "TagRow"}
SessionFailures == {"Environment::build", "with_model_from_file", "dimension is missing"}
LoadFailures == RetrieveFailures \cup LabelFailures \cup SessionFailures
InferenceFailures ==
  {"Value::from_array", "session.run", "try_extract", "into_dimensionality"}
Failures == LoadFailures \cup InferenceFailures

\* The places a call can fail at: a Predictor that holds a session returns
\* from load() at line 96 and never reaches the later ones.
FailuresOf(loaded) ==
  IF loaded THEN RetrieveFailures \cup InferenceFailures ELSE Failures

\* Dimensions the loaded model declares for its input: [batch, S, S, 3].
ModelInputDims == <<None, 2, 2, 3>>

\* --------------------------------------------------------- load_labels
\* row.name.chars().all(|c| "_()<>+^.0123456789".contains(c)) keeps the
\* name, otherwise every '_' becomes ' '.
normalize(name) ==
  IF \A k \in DOMAIN name : name[k] \in KeepChars
  THEN name
  ELSE [k \in DOMAIN name |-> IF name[k] = "_" THEN " " ELSE name[k]]

\* The 0-based row indices whose category is code, in row order.
indices_of(rows, code) ==
  LET F[k \in 0..Len(rows)] ==
        IF k = 0 THEN <<>>
        ELSE IF rows[k].category = code THEN Append(F[k - 1], k - 1)
        ELSE F[k - 1]
  IN F[Len(rows)]

\* load_labels(): (names, ratings, general, character), or a panic.
load_labels(rows, fail) ==
  IF fail \in LabelFailures
  THEN [panic |-> fail]
  ELSE [panic |-> None,
        names |-> [k \in DOMAIN rows |-> normalize(rows[k].name)],
        ratings |-> indices_of(rows, 9),
        general |-> indices_of(rows, 0),
        character |-> indices_of(rows, 4)]

\* ------------------------------------------------------ Predictor::new
new ==
  [session |-> None, size |-> 0, tag_names |-> <<>>,
   rating_i |-> <<>>, general_i |-> <<>>, character_i |-> <<>>]

\* ----------------------------------------------------- Predictor::load
\* Lines 92-94: the Api and the model file are fetched before anything
\* else, on every call.
load_retrieve(fail) ==
  IF fail \in RetrieveFailures
  THEN [panic |-> fail, work |-> <<"Api::new">>]
  ELSE [panic |-> None, work |-> <<"Api::new", "repo.get(model.onnx)">>]

\* Line 96: the early return of a Predictor that holds a session.
is_loaded(self) == self.session # None

\* Lines 97-101: the catalog fields are assigned from load_labels().
load_catalog(self, rows, fail) ==
  LET l == load_labels(rows, fail) IN
  IF l.panic # None
  THEN [panic |-> l.panic, self |-> self]
  ELSE [panic |-> None,
        self |-> [self EXCEPT !.tag_names = l.names, !.rating_i = l.ratings,
                              !.general_i = l.general, !.character_i = l.character]]

\* Lines 103-112: the session is built, the input size read, the session
\* stored last.
load_session(self, fail) ==
  IF fail \in SessionFailures
  THEN [panic |-> fail, self |-> self]
  ELSE [panic |-> None,
        self |-> [self EXCEPT !.size = ModelInputDims[3], !.session = "Session"]]

\* The whole of load(): the Predictor it leaves, the panic that ended it
\* (or None), and the outside work it did, in order.
load(self, rows, fail) ==
  LET r == load_retrieve(fail) IN
  IF r.panic # None THEN [panic |-> r.panic, self |-> self, work |-> r.work]
  ELSE IF is_loaded(self) THEN [panic |-> None, self |-> self, work |-> r.work]
  ELSE LET c == load_catalog(self, rows, fail) IN
       IF c.panic # None
       THEN [panic |-> c.panic, self |-> c.self, work |-> r.work]
       ELSE LET s == load_session(c.self, fail) IN
            [panic |-> s.panic, self |-> s.self,
             work |-> r.work \o <<"load_labels">>
                      \o (IF s.panic = None THEN <<"Session">> ELSE <<>>)]

\* -------------------------------------------------- Predictor::prepare
\* The shape of the tensor prepare() builds: (1, size, size, 3).
prepare(self) == <<1, self.size, self.size, 3>>

\* `let x = v; F(x)`: F applied to the value of v.
Bind(v, F(_)) == F(v)

\* ------------------------------------------------------- Iterator::max_by
\* Rust's max_by over pairs compared on their second component: a fold
\* that keeps the element found so far only when it compares Greater with
\* the next one, so that the last of several equal maxima is returned.
RECURSIVE max_by_fold(_, _, _, _)
max_by_fold(list, k, acc, keep_on_equal) ==
  IF k > Len(list) THEN acc
  ELSE max_by_fold(list, k + 1,
                   IF acc[2] > list[k][2] \/ (keep_on_equal /\ acc[2] = list[k][2])
                   THEN acc ELSE list[k],
                   keep_on_equal)

max_by_first(list) == max_by_fold(list, 2, list[1], TRUE)

max_by(list) == max_by_fold(list, 2, list[1], FALSE)

\* ------------------------------------------------------- slice::sort_by
\* The sorted list with x put after the pairs that do not compare Less
\* (after: TRUE) or before the pairs of equal key (after: FALSE).
insert_desc(sorted, x, after) ==
  LET pos == Cardinality({k \in DOMAIN sorted :
                            sorted[k][2] > x[2] \/ (after /\ sorted[k][2] = x[2])})
  IN SubSeq(sorted, 1, pos) \o <<x>> \o SubSeq(sorted, pos + 1, Len(sorted))

RECURSIVE sort_fold(_, _, _, _)
sort_fold(list, k, sorted, stable) ==
  IF k > Len(list) THEN sorted
  ELSE sort_fold(list, k + 1, insert_desc(sorted, list[k], stable), stable)

\* general.sort_by(|a, b| b.1.partial_cmp(&a.1)): a stable sort, descending
\* by score; pairs of equal score keep their order.
sort_by_desc_unstable(list) == sort_fold(list, 1, <<>>, FALSE)

sort_by_desc(list) == sort_fold(list, 1, <<>>, TRUE)

\* probs.sort_by(|a, b| b.partial_cmp(a)): the scores in descending order.
sort_probs(probs) ==
  LET keyed == sort_by_desc([k \in DOMAIN probs |-> <<k, probs[k]>>])
  IN [k \in DOMAIN keyed |-> keyed[k][2]]

\* ------------------------------------------------------- mcut_threshold
\* Sort descending, take the consecutive differences, the index t of the
\* greatest one (max_by over the enumerated differences), and return the
\* midpoint of probs[t] and probs[t + 1].  With fewer than two scores
\* there is no difference and max_by(..).unwrap() panics.
mcut_threshold(probs) ==
  IF Len(probs) < 2
  THEN [panic |-> "mcut_threshold", value |-> -1]
  ELSE LET Mid(s) ==
             LET t == max_by([k \in 1..(Len(s) - 1) |-> <<k - 1, s[k] - s[k + 1]>>])[1]
             IN (s[t + 1] + s[t + 2]) \div 2
       IN [panic |-> None, value |-> Bind(sort_probs(probs), Mid)]

\* ---------------------------------------------------- Predictor::predict
\* Lines 155-161: an index list mapped to (name, score) pairs; an index
\* past the end of the score row panics.
candidates(idx, self, scores) ==
  IF \E k \in DOMAIN idx : idx[k] >= Len(scores)
  THEN [panic |-> "scores[i]", list |-> <<>>]
  ELSE [panic |-> None,
        list |-> [k \in DOMAIN idx |->
                    <<self.tag_names[idx[k] + 1], scores[idx[k] + 1]>>]]

\* Lines 155-158: the rating pair; max_by of no pair is None, and unwrap()
\* panics.
rating_of(self, scores) ==
  LET Best(c) ==
        IF c.panic # None THEN [panic |-> c.panic, value |-> <<>>]
        ELSE IF Len(c.list) = 0 THEN [panic |-> "rating", value |-> <<>>]
        ELSE [panic |-> None, value |-> max_by(c.list)]
  IN Bind(candidates(self.rating_i, self, scores), Best)

\* Vec::retain(|&(_, v)| v > thresh).
retain_ge(list, thresh) == SelectSeq(list, LAMBDA p : p[2] >= thresh)

retain(list, thresh) == SelectSeq(list, LAMBDA p : p[2] > thresh)

Scores(list) == [k \in DOMAIN list |-> list[k][2]]

Names(list) == [k \in DOMAIN list |-> list[k][1]]

\* Lines 163-169: the general candidates that pass the threshold.
threshold_general(general, g_th, g_mcut) ==
  LET Cut(m) ==
        IF m.panic # None THEN [panic |-> m.panic, list |-> <<>>, thresh |-> -1]
        ELSE [panic |-> None, list |-> retain(general, m.value), thresh |-> m.value]
  IN IF g_mcut
     THEN Bind(mcut_threshold(Scores(general)), Cut)
     ELSE Cut([panic |-> None, value |-> g_th])

\* Lines 171-177: the character candidates that pass the threshold, the
\* adaptive one being at least 0.15.  The list is not sorted.
threshold_character_sorted(character, c_th, c_mcut) ==
  LET Cut(m) ==
        IF m.panic # None THEN [panic |-> m.panic, list |-> <<>>, thresh |-> -1]
        ELSE [panic |-> None, list |-> sort_by_desc(retain(character, m.value)),
              thresh |-> m.value]
      Floor(m) ==
        IF m.panic = None /\ m.value < CharFloor
        THEN Cut([panic |-> None, value |-> CharFloor]) ELSE Cut(m)
  IN IF c_mcut
     THEN Bind(mcut_threshold(Scores(character)), Floor)
     ELSE Cut([panic |-> None, value |-> c_th])

threshold_character(character, c_th, c_mcut) ==
  LET Cut(m) ==
        IF m.panic # None THEN [panic |-> m.panic, list |-> <<>>, thresh |-> -1]
        ELSE [panic |-> None, list |-> retain(character, m.value), thresh |-> m.value]
      Floor(m) ==
        IF m.panic = None /\ m.value < CharFloor
        THEN Cut([panic |-> None, value |-> CharFloor]) ELSE Cut(m)
  IN IF c_mcut
     THEN Bind(mcut_threshold(Scores(character)), Floor)
     ELSE Cut([panic |-> None, value |-> c_th])

\* names.join(", "): the names' characters with ", " between two names.
RECURSIVE join_fold(_, _, _)
join_fold(names, k, acc) ==
  IF k > Len(names) THEN acc
  ELSE join_fold(names, k + 1, IF k = 1 THEN names[1] ELSE acc \o <<",", " ">> \o names[k])

join(names) == join_fold(names, 1, <<>>)

\* Lines 179-182: the general list sorted, the caption made of it, and the
\* tuple (general_str, vec![rating], character, general).
result(rating, character, general) ==
  LET Tuple(sorted) == <<join(Names(sorted)), <<rating>>, character, sorted>>
  IN Bind(sort_by_desc(general), Tuple)

\* Lines 153-183: what predict computes from the score row, or the panic
\* that ends it, in the order of the code: the rating, the two candidate
\* lists, the general threshold, the character threshold, the tuple.
\* thresh holds the two local thresholds.
predict_scores(self, scores, g_th, g_mcut, c_th, c_mcut) ==
  LET Panic(at) == [panic |-> at, value |-> <<>>, thresh |-> [g |-> -1, c |-> -1]]
      Finish(r, tg, tc) ==
        IF tc.panic # None THEN Panic(tc.panic)
        ELSE [panic |-> None,
              value |-> result(r.value, tc.list, tg.list),
              thresh |-> [g |-> tg.thresh, c |-> tc.thresh]]
      Character(r, c, tg) ==
        IF tg.panic # None THEN Panic(tg.panic)
        ELSE LET K(tc) == Finish(r, tg, tc)
             IN Bind(threshold_character(c.list, c_th, c_mcut), K)
      General(r, g, c) ==
        IF r.panic # None THEN Panic(r.panic)
        ELSE IF g.panic # None THEN Panic(g.panic)
        ELSE IF c.panic # None THEN Panic(c.panic)
        ELSE LET K(tg) == Character(r, c, tg)
             IN Bind(threshold_general(g.list, g_th, g_mcut), K)
      WithRating(r) ==
        LET WithGeneral(g) ==
              LET WithCharacter(c) == General(r, g, c)
              IN Bind(candidates(self.character_i, self, scores), WithCharacter)
        IN Bind(candidates(self.general_i, self, scores), WithGeneral)
  IN Bind(rating_of(self, scores), WithRating)

\* ================================================================ state
VARIABLES
  csv,            \* the rows of selected_tags.csv in the model repository
  session, size, tag_names, rating_i, general_i, character_i,  \* Predictor
  proc,           \* "running", or "panicked" once an unwrap() has failed
  call,           \* the call made last: arguments, failure met, score row
  ret,            \* what that call produced: a tuple, or the panic
  work,           \* the outside work load() did in that call, in order
  thresh,         \* the local thresholds of that call (-1: not computed)
  labelLoads,     \* how many times load_labels() has returned
  sessionBuilds,  \* how many times a session has been stored
  pc,             \* concurrent callers: where each one is in predict
  holder,         \* concurrent callers: who holds the `&mut self` borrow (a set)
  obs             \* concurrent callers: what each saw after self.load()

predictor == <<session, size, tag_names, rating_i, general_i, character_i>>
conc == <<pc, holder, obs>>
vars == <<csv, predictor, proc, call, ret, work, thresh, labelLoads,
          sessionBuilds, conc>>

Self ==
  [session |-> session, size |-> size, tag_names |-> tag_names,
   rating_i |-> rating_i, general_i |-> general_i, character_i |-> character_i]

SetSelf(s) ==
  /\ session' = s.session
  /\ size' = s.size
  /\ tag_names' = s.tag_names
  /\ rating_i' = s.rating_i
  /\ general_i' = s.general_i
  /\ character_i' = s.character_i

NoCall ==
  [made |-> FALSE, g_th |-> 0, g_mcut |-> FALSE, c_th |-> 0, c_mcut |-> FALSE,
   fail |-> None, was_loaded |-> FALSE, inferred |-> FALSE, tensor |-> <<>>,
   scores |-> <<>>]
NoRet == [kind |-> "none", at |-> None, value |-> <<>>]
NoThresh == [g |-> -1, c |-> -1]
NoObs == [seen |-> FALSE, session |-> None, labelLoads |-> 0, arrived |-> None]

\* The score rows an inference may return for a catalog of n tags: one
\* score per tag, or a row that is one score short.
ScoreRows(n) ==
  [1..n -> ScoreVals] \cup (IF n > 0 THEN [1..(n - 1) -> ScoreVals] ELSE {})

Has(seq, x) == \E k \in DOMAIN seq : seq[k] = x

\* Predictor::new() in main, before the first call.
Init ==
  /\ csv \in CsvFiles
  /\ session = new.session
  /\ size = new.size
  /\ tag_names = new.tag_names
  /\ rating_i = new.rating_i
  /\ general_i = new.general_i
  /\ character_i = new.character_i
  /\ proc = "running"
  /\ call = NoCall
  /\ ret = NoRet
  /\ work = <<>>
  /\ thresh = NoThresh
  /\ labelLoads = 0
  /\ sessionBuilds = 0
  /\ pc = [c \in Callers |-> "idle"]
  /\ holder = {}
  /\ obs = [c \in Callers |-> NoObs]

\* ------------------------------------------------ one call of predict
\* pred.predict(img, g_th, g_mcut, c_th, c_mcut), from load() to the
\* returned tuple.  fail is the place where the outside world fails in
\* this call (None: nowhere); scores is the row the session returns.  Of
\* the image only the shape of its tensor is kept: the pixels reach the
\* result through the scores alone.
Predict ==
  /\ proc = "running"
  /\ ~call.made
  /\ \E g_th \in ThVals, c_th \in ThVals, g_mcut \in BOOLEAN, c_mcut \in BOOLEAN,
        fail \in FailuresOf(session # None) \cup {None} :
       LET l == load(Self, csv, fail)
           args == [made |-> TRUE, g_th |-> g_th, g_mcut |-> g_mcut,
                    c_th |-> c_th, c_mcut |-> c_mcut, fail |-> fail,
                    was_loaded |-> is_loaded(Self),
                    inferred |-> FALSE, tensor |-> <<>>, scores |-> <<>>]
       IN /\ SetSelf(l.self)
          /\ work' = l.work
          /\ labelLoads' = labelLoads + (IF Has(l.work, "load_labels") THEN 1 ELSE 0)
          /\ sessionBuilds' = sessionBuilds + (IF Has(l.work, "Session") THEN 1 ELSE 0)
          /\ IF l.panic # None \/ fail \in InferenceFailures
             THEN /\ proc' = "panicked"
                  /\ call' = IF l.panic # None THEN args
                             ELSE [args EXCEPT !.tensor = prepare(l.self)]
                  /\ ret' = [kind |-> "panic",
                             at |-> IF l.panic # None THEN l.panic ELSE fail,
                             value |-> <<>>]
                  /\ thresh' = NoThresh
             ELSE \E scores \in ScoreRows(Len(l.self.tag_names)) :
                    \E p \in {predict_scores(l.self, scores, g_th, g_mcut, c_th, c_mcut)} :
                       /\ call' = [args EXCEPT !.inferred = TRUE, !.scores = scores,
                                                !.tensor = prepare(l.self)]
                       /\ IF p.panic # None
                          THEN /\ proc' = "panicked"
                               /\ ret' = [kind |-> "panic", at |-> p.panic, value |-> <<>>]
                               /\ thresh' = NoThresh
                          ELSE /\ proc' = "running"
                               /\ ret' = [kind |-> "ok", at |-> None, value |-> p.value]
                               /\ thresh' = p.thresh
  /\ UNCHANGED <<csv, conc>>

\* main, lines 197-211: the caller uses the tuple and drops it.
Consume ==
  /\ proc = "running"
  /\ call.made
  /\ call' = NoCall
  /\ ret' = NoRet
  /\ work' = <<>>
  /\ thresh' = NoThresh
  /\ UNCHANGED <<csv, predictor, proc, labelLoads, sessionBuilds, conc>>

\* main.rs: one Predictor, one call of predict.
Next == Predict

Spec == Init /\ [][Next]_vars

\* Any number of calls on one Predictor.
NextCalls == Predict \/ Consume

SpecCalls == Init /\ [][NextCalls]_vars

\* ------------------------------------------- predict, caller by caller
\* The same code taken one step at a time, for several callers sharing one
\* Predictor.  predict and load take `&mut self`: a caller runs predict
\* only while it holds the exclusive borrow, whatever hands it out.
\*   "idle" -> "blocked" -> "retrieve" -> "check" -> "labels" -> "session"
\*          -> "run" -> "idle"

\* `&mut self` (lines 91 and 137): nobody else is inside predict.
borrow_shared == TRUE

borrow_free == holder = {}

Panics(c, at) ==
  /\ proc' = "panicked"
  /\ ret' = [kind |-> "panic", at |-> at, value |-> <<>>]
  /\ pc' = [pc EXCEPT ![c] = "panicked"]

\* A caller asks for predict; obs keeps what the Predictor was doing then.
Arrive(c) ==
  /\ proc = "running"
  /\ pc[c] = "idle"
  /\ pc' = [pc EXCEPT ![c] = "blocked"]
  /\ obs' = [obs EXCEPT ![c].arrived =
                IF session # None THEN "loaded"
                ELSE IF holder # {} THEN "loading" ELSE "unloaded"]
  /\ UNCHANGED <<csv, predictor, proc, call, ret, work, thresh, labelLoads,
                 sessionBuilds, holder>>

\* It gets the borrow and enters predict, line 144.
Enter(c) ==
  /\ proc = "running"
  /\ pc[c] = "blocked"
  /\ borrow_free
  /\ holder' = holder \cup {c}
  /\ pc' = [pc EXCEPT ![c] = "retrieve"]
  /\ UNCHANGED <<csv, predictor, proc, call, ret, work, thresh, labelLoads,
                 sessionBuilds, obs>>

\* load, lines 92-94.
Retrieve(c) ==
  /\ proc = "running"
  /\ pc[c] = "retrieve"
  /\ \E fail \in RetrieveFailures \cup {None} :
       IF load_retrieve(fail).panic # None
       THEN Panics(c, fail)
       ELSE /\ pc' = [pc EXCEPT ![c] = "check"]
            /\ UNCHANGED <<proc, ret>>
  /\ UNCHANGED <<csv, predictor, call, work, thresh, labelLoads,
                 sessionBuilds, holder, obs>>

\* load, line 96.
Check(c) ==
  /\ proc = "running"
  /\ pc[c] = "check"
  /\ pc' = [pc EXCEPT ![c] = IF is_loaded(Self) THEN "run" ELSE "labels"]
  /\ UNCHANGED <<csv, predictor, proc, call, ret, work, thresh, labelLoads,
                 sessionBuilds, holder, obs>>

\* load, lines 97-101.
Labels(c) ==
  /\ proc = "running"
  /\ pc[c] = "labels"
  /\ \E fail \in LabelFailures \cup {None} :
       LET l == load_catalog(Self, csv, fail) IN
       /\ SetSelf(l.self)
       /\ IF l.panic # None
          THEN Panics(c, l.panic) /\ UNCHANGED labelLoads
          ELSE /\ pc' = [pc EXCEPT ![c] = "session"]
               /\ labelLoads' = labelLoads + 1
               /\ UNCHANGED <<proc, ret>>
  /\ UNCHANGED <<csv, call, work, thresh, sessionBuilds, holder, obs>>

\* load, lines 103-112.
BuildSession(c) ==
  /\ proc = "running"
  /\ pc[c] = "session"
  /\ \E fail \in SessionFailures \cup {None} :
       LET l == load_session(Self, fail) IN
       /\ SetSelf(l.self)
       /\ IF l.panic # None
          THEN Panics(c, l.panic) /\ UNCHANGED sessionBuilds
          ELSE /\ pc' = [pc EXCEPT ![c] = "run"]
               /\ sessionBuilds' = sessionBuilds + 1
               /\ UNCHANGED <<proc, ret>>
  /\ UNCHANGED <<csv, call, work, thresh, labelLoads, holder, obs>>

\* predict, lines 145-183: the caller reads the session and the catalog,
\* returns and gives the borrow back.  What it found is kept in obs.
Run(c) ==
  /\ proc = "running"
  /\ pc[c] = "run"
  /\ obs' = [obs EXCEPT ![c] = [seen |-> TRUE, session |-> session,
                                labelLoads |-> labelLoads,
                                arrived |-> obs[c].arrived]]
  /\ pc' = [pc EXCEPT ![c] = "idle"]
  /\ holder' = holder \ {c}
  /\ UNCHANGED <<csv, predictor, proc, call, ret, work, thresh, labelLoads,
                 sessionBuilds>>

NextConc ==
  \E c \in Callers :
    \/ Arrive(c)
    \/ Enter(c)
    \/ Retrieve(c)
    \/ Check(c)
    \/ Labels(c)
    \/ BuildSession(c)
    \/ Run(c)

SpecConc == Init /\ [][NextConc]_vars

\* =============================================================== claims
Ok == ret.kind = "ok"
RetCaption == ret.value[1]
RetRating == ret.value[2][1]
RetCharacter == ret.value[3]
RetGeneral == ret.value[4]

\* The score and the (name, score) pair of catalog index i in the call made.
ScoreOf(i) == call.scores[i + 1]
PairOf(i) == <<tag_names[i + 1], call.scores[i + 1]>>

\* The catalog index of a tag name (the names of the catalog are distinct).
IndexOf(name) == CHOOSE i \in 0..(Len(tag_names) - 1) : tag_names[i + 1] = name

\* ------------------------------------------------------------------ C1
IsMaxRating(k) ==
  \A j \in DOMAIN rating_i : ScoreOf(rating_i[j]) <= ScoreOf(rating_i[k])

\* C1 as stated: the rating returned is the pair of a rating entry of
\* maximal score, the first one in catalog order when several are maximal.
C1_Original ==
  Ok => \E k \in DOMAIN rating_i :
          /\ IsMaxRating(k)
          /\ \A j \in 1..(k - 1) : ~IsMaxRating(j)
          /\ RetRating = PairOf(rating_i[k])

\* C1 amended: the rating returned is the pair of a rating entry of
\* maximal score, the last one in catalog order when several are maximal.
C1_RatingIsLastMax ==
  Ok => \E k \in DOMAIN rating_i :
          /\ IsMaxRating(k)
          /\ \A j \in (k + 1)..Len(rating_i) : ~IsMaxRating(j)
          /\ RetRating = PairOf(rating_i[k])

\* A call returned a rating chosen among two rating entries of maximal score.
C1_Witness ==
  /\ Ok
  /\ \E j, k \in DOMAIN rating_i : j < k /\ IsMaxRating(j) /\ IsMaxRating(k)

\* ------------------------------------------------------------------ C2
\* list holds exactly the pairs of the indices of idx whose score is
\* strictly greater than th, each once.
ExactlyAbove(list, idx, th) ==
  /\ Len(list) = Cardinality({k \in DOMAIN idx : ScoreOf(idx[k]) > th})
  /\ \A k \in DOMAIN idx :
       (ScoreOf(idx[k]) > th) <=> (\E m \in DOMAIN list : list[m] = PairOf(idx[k]))

\* C2: under the fixed policy a category keeps exactly the candidates whose
\* score is strictly greater than the threshold passed by the caller.
C2_FixedKeepsStrictlyAbove ==
  Ok => /\ ~call.g_mcut => ExactlyAbove(RetGeneral, general_i, call.g_th)
        /\ ~call.c_mcut => ExactlyAbove(RetCharacter, character_i, call.c_th)

\* A fixed-policy call with a general score on the threshold, a general
\* score above it and a character score on the threshold.
C2_Witness ==
  /\ Ok /\ ~call.g_mcut /\ ~call.c_mcut
  /\ \E k \in DOMAIN general_i : ScoreOf(general_i[k]) = call.g_th
  /\ \E k \in DOMAIN general_i : ScoreOf(general_i[k]) > call.g_th
  /\ \E k \in DOMAIN character_i : ScoreOf(character_i[k]) = call.c_th

\* ------------------------------------------------------------------ C3
\* The k-th greatest (k from 1) of the scores of the indices of idx.
Kth(idx, k) ==
  CHOOSE v \in ScoreVals :
    /\ Cardinality({j \in DOMAIN idx : ScoreOf(idx[j]) > v}) < k
    /\ k <= Cardinality({j \in DOMAIN idx : ScoreOf(idx[j]) >= v})

Gap(idx, k) == Kth(idx, k) - Kth(idx, k + 1)

IsMaxGap(idx, t) == \A j \in 1..(Len(idx) - 1) : Gap(idx, j) <= Gap(idx, t)

\* C3 as stated: the adaptive threshold is the midpoint at the greatest
\* consecutive difference of the sorted scores, the first such difference
\* when several are equally great.
C3_Original ==
  (Ok /\ call.g_mcut) =>
    \E t \in 1..(Len(general_i) - 1) :
      /\ IsMaxGap(general_i, t)
      /\ \A j \in 1..(t - 1) : ~IsMaxGap(general_i, j)
      /\ 2 * thresh.g = Kth(general_i, t) + Kth(general_i, t + 1)

\* C3 amended: the adaptive threshold is the midpoint at the greatest
\* consecutive difference of the sorted scores, the last such difference
\* when several are equally great.
C3_McutIsLastMaxGap ==
  (Ok /\ call.g_mcut) =>
    \E t \in 1..(Len(general_i) - 1) :
      /\ IsMaxGap(general_i, t)
      /\ \A j \in (t + 1)..(Len(general_i) - 1) : ~IsMaxGap(general_i, j)
      /\ 2 * thresh.g = Kth(general_i, t) + Kth(general_i, t + 1)

\* An adaptive call on general scores with two equally great greatest
\* differences that are not zero.
C3_Witness ==
  /\ Ok /\ call.g_mcut
  /\ \E t, u \in 1..(Len(general_i) - 1) :
       t < u /\ IsMaxGap(general_i, t) /\ IsMaxGap(general_i, u)
       /\ Gap(general_i, t) > 0

\* ------------------------------------------------------------------ C4
\* C4: the general list is in non-increasing score order, two pairs of
\* equal score are in catalog order, and the caption is the names of the
\* list in its order, joined by ", ".
C4_GeneralSortedStable ==
  Ok => /\ \A a, b \in DOMAIN RetGeneral :
             a < b => \/ RetGeneral[a][2] > RetGeneral[b][2]
                      \/ /\ RetGeneral[a][2] = RetGeneral[b][2]
                         /\ IndexOf(RetGeneral[a][1]) < IndexOf(RetGeneral[b][1])
        /\ RetCaption = join(Names(RetGeneral))

\* A general list with two pairs of equal score and a pair moved before
\* a pair of lower catalog index.
C4_Witness ==
  /\ Ok
  /\ \E a, b \in DOMAIN RetGeneral : a < b /\ RetGeneral[a][2] = RetGeneral[b][2]
  /\ \E a, b \in DOMAIN RetGeneral :
       a < b /\ IndexOf(RetGeneral[a][1]) > IndexOf(RetGeneral[b][1])

\* ------------------------------------------------------------------ C5
\* C5: the character list holds pairs of the character index list, in
\* increasing catalog index.
C5_CharacterInCatalogOrder ==
  Ok => /\ \A a \in DOMAIN RetCharacter :
             \E k \in DOMAIN character_i : RetCharacter[a] = PairOf(character_i[k])
        /\ \A a, b \in DOMAIN RetCharacter :
             a < b => IndexOf(RetCharacter[a][1]) < IndexOf(RetCharacter[b][1])

\* A character list whose first pair has a lower score than its second.
C5_Witness ==
  /\ Ok
  /\ Len(RetCharacter) >= 2
  /\ RetCharacter[1][2] < RetCharacter[2][2]

\* ------------------------------------------------------------------ C6
\* C6 as stated: the catalog and the session are built at most once, and a
\* step taken by a Predictor that holds a session changes none of its
\* fields and does no load or retrieval work.
C6_Original ==
  [][/\ labelLoads' <= 1
     /\ sessionBuilds' <= 1
     /\ session # None => (UNCHANGED predictor /\ work' = <<>>)]_vars

\* ------------------------------------------------------------------ C7
InPredict == {"retrieve", "check", "labels", "session", "run"}

\* Nothing of the load has happened, or all of it has.
Unloaded == labelLoads = 0 /\ session = None
Loaded == labelLoads = 1 /\ sessionBuilds = 1 /\ session # None

C8_Original ==
  (ret.kind = "panic" /\ ret.at \in LoadFailures) => Self = new

\* ------------------------------------------------------------------ C9
\* C9 as stated: a call in which the load or the inference fails gives its
\* caller an error value and the process goes on; so does a call whose
\* score row has not the length of the catalog.
C9_Original ==
  /\ (call.made /\ call.fail # None) => (ret.kind = "error" /\ proc = "running")
  /\ (call.inferred /\ Len(call.scores) # Len(tag_names)) => ret.kind = "error"

\* ----------------------------------------------------------------- C10
\* C10 as stated: a call that asks for the adaptive policy for a category
\* of fewer than two candidates does not end in the panic of
\* mcut_threshold.
C10_Original ==
  (/\ call.inferred
   /\ \/ call.g_mcut /\ Len(general_i) < 2
      \/ call.c_mcut /\ Len(character_i) < 2)
  => ~(ret.kind = "panic" /\ ret.at = "mcut_threshold")

====
